---- MODULE Spec2Model ----
(***************************************************************************)
(* Weatherly Control: the chart component (TimeSeriesChart), the sensor    *)
(* routes of the HTTP server with their store queries, and server boot.    *)
(*                                                                         *)
(* Conventions of the model                                                *)
(*  - Time is counted in hours: the table timeRangeMs of getProcessedData  *)
(*    (60*60*1000 ms, 6 h, 24 h, 7 d) is 1, 6, 24, 168 units.              *)
(*  - Pixel positions are rationals.  A position is kept as a numerator    *)
(*    over the denominator the code divides by (timeRange, valueRange), so *)
(*    no rounding is modelled; distances are compared by their squares     *)
(*    over a common denominator.                                           *)
(***************************************************************************)
EXTENDS Integers, Sequences, FiniteSets, TLC

VARIABLES
    \* ---- client: TimeSeriesChart ----
    sensorData,         \* prop sensorData: sequence of samples
    selectedTimeRange,  \* useState('1h')
    now,                \* the wall clock read by new Date()
    canvas,             \* what the last drawChart put on the canvas
    hit,                \* the pointer move just handled (NoHit after any other event)
    tooltip,            \* useState(null)
    \* ---- server ----
    nodeEnv,            \* process.env.NODE_ENV
    boot,               \* where the top level of server/index.js stands
    mqttEvent,          \* the event the MQTT client will emit for the pending connect
    running,            \* the server process is alive
    req,                \* the HTTP request being handled
    queries,            \* the store queries of that request, by name
    issued,             \* how many store queries that request has issued
    bundle,             \* the promise returned by getAllEnvironmentalData
    resp,               \* the response sent for that request
    \* ---- client: useSensorData and App ----
    hookData,           \* useSensorData: useState(null) sensorData
    loading,            \* useSensorData: useState(false) loading
    sensorError,        \* useSensorData: useState(null) error
    error,              \* App: useState(null) error, the banner
    inflight,           \* the calls of fetchSensorData still awaiting their response
    started,            \* how many calls of fetchSensorData have started
    done,               \* history: the calls that have completed, in completion order
    \* ---- client: utils/helpers.js ----
    helperArg,          \* the string a helper is called with
    helperOut,          \* what the helper returned, NotCalled before the call
    \* ---- client: TimeSeriesChart, window resize ----
    resizeClock,        \* milliseconds since the chart was mounted
    timers,             \* due times of the pending setTimeout(drawChart, 100), oldest first
    resizeEvents,       \* history: the instants of the resize events
    redrawTimes,        \* history: the instants at which a timer ran drawChart
    \* ---- server: routes/devices.js and services/mqtt.js ----
    mqttClient,         \* let mqttClient = null, then the client of mqtt.connect
    deviceRegistry,     \* const deviceRegistry = new Map()
    published,          \* the messages handed to mqttClient.publish, in order
    devReqs,            \* the device requests received, each with its progress
    \* ---- server: middleware/errorHandler.js on its own ----
    thrown,             \* the error handed to next(err)
    thrownEnv,          \* process.env.NODE_ENV when it is handled
    handled,            \* the response errorHandler sent, NoResp before
    \* ---- server: the handler registry of services/mqtt.js ----
    messageHandlers,    \* topic -> the handlers registered for it, in order
    subCalls,           \* the calls of subscribeToTopic, each with its outcome
    invoked             \* the messages received, each with the handlers called

chartVars == <<sensorData, selectedTimeRange, now, canvas, hit, tooltip>>

serverVars == <<nodeEnv, boot, mqttEvent, running, req, queries, issued, bundle, resp>>

clientVars == <<hookData, loading, sensorError, error, inflight, started, done>>

helperVars == <<helperArg, helperOut>>

resizeVars == <<resizeClock, timers, resizeEvents, redrawTimes>>

handlerVars == <<messageHandlers, subCalls, invoked>>

deviceVars == <<mqttClient, deviceRegistry, published, devReqs, handlerVars>>

(* the variables of the components added to the chart and the server *)
errorVars == <<thrown, thrownEnv, handled>>

restVars == <<clientVars, helperVars, resizeVars, deviceVars, errorVars>>

(* what the events of the hook and of App leave alone *)
offClient == <<chartVars, serverVars, helperVars, resizeVars, deviceVars, errorVars>>

(* what a call of a helper leaves alone *)
offHelpers == <<chartVars, serverVars, clientVars, resizeVars, deviceVars, errorVars>>

(* what a resize event, its timer and the passing of time leave alone *)
offResize == <<sensorData, selectedTimeRange, now, hit, tooltip,
               serverVars, clientVars, helperVars, deviceVars, errorVars>>

(* what the device routes and the MQTT client leave alone *)
offDevices == <<chartVars, serverVars, clientVars, helperVars, resizeVars, errorVars,
                handlerVars>>

(* what subscribeToTopic and the 'message' listener leave alone *)
offHandlers == <<chartVars, serverVars, clientVars, helperVars, resizeVars, errorVars,
                 mqttClient, deviceRegistry, published, devReqs>>

(* what errorHandler leaves alone *)
offErrors == <<chartVars, serverVars, clientVars, helperVars, resizeVars, deviceVars>>

vars == <<sensorData, selectedTimeRange, now, canvas, hit, tooltip,
          nodeEnv, boot, mqttEvent, running, req, queries, issued, bundle, resp,
          hookData, loading, sensorError, error, inflight, started, done,
          helperArg, helperOut,
          resizeClock, timers, resizeEvents, redrawTimes,
          mqttClient, deviceRegistry, published, devReqs,
          thrown, thrownEnv, handled,
          messageHandlers, subCalls, invoked>>

----------------------------------------------------------------------------
(* Bounds of the model *)

MaxLen == 2         \* longest sensorData list
MaxTick == 1        \* how far the clock advances past Now0

(* The instant the component mounts, and the sample universe.  The sample  *)
(* times sit on both sides of every window's cutoff as the clock moves     *)
(* from Now0 to Now0 + MaxTick.                                            *)
Now0 == 200
Times == {Now0 - 168, Now0 - 24, Now0 - 1}
Values == {-1, 3}
Samples == [timestamp : Times, value : Values]

RECURSIVE SeqsUpTo(_, _)
SeqsUpTo(S, n) ==
    IF n = 0 THEN {<<>>}
    ELSE LET shorter == SeqsUpTo(S, n - 1)
         IN  shorter \cup {Append(s, x) : s \in {t \in shorter : Len(t) = n - 1}, x \in S}

(* null, kept apart from every sample and every tooltip *)
Null == [null |-> TRUE]

(* Infinity, the start of closestDistance: squared distances are >= 0 *)
Infinity == -1

----------------------------------------------------------------------------
(* TimeSeriesChart *)

timeRanges == {"1h", "6h", "24h", "7d"}

timeRangeMs(range) ==
    CASE range = "1h"  -> 1
      [] range = "6h"  -> 6
      [] range = "24h" -> 24
      [] range = "7d"  -> 7 * 24

padding == [top |-> 30, right |-> 30, bottom |-> 50, left |-> 50]

(* canvas.getBoundingClientRect(): the CSS box of the canvas *)
rect == [width |-> 120, height |-> 100]

HitRadius == 15

(* Array.prototype.sort with the comparator a.timestamp - b.timestamp:     *)
(* stable, ascending.  Insertion of x after the last element not greater.  *)
RECURSIVE InsertByTimestamp(_, _)
InsertByTimestamp(s, x) ==
    IF s = <<>> THEN <<x>>
    ELSE IF s[Len(s)].timestamp - x.timestamp <= 0
         THEN Append(s, x)
         ELSE Append(InsertByTimestamp(SubSeq(s, 1, Len(s) - 1), x), s[Len(s)])

RECURSIVE SortByTimestamp(_)
SortByTimestamp(s) ==
    IF s = <<>> THEN <<>>
    ELSE InsertByTimestamp(SortByTimestamp(SubSeq(s, 1, Len(s) - 1)), s[Len(s)])

(* mutant: the cutoff instant itself falls outside the window *)
InWindow_Strict(d, cutoffTime) == d.timestamp > cutoffTime

(* new Date(d.timestamp) >= cutoffTime *)
InWindow(d, cutoffTime) == d.timestamp >= cutoffTime

getProcessedData(data, range, clock) ==
    IF Len(data) = 0 THEN <<>>
    ELSE LET cutoffTime == clock - timeRangeMs(range)
         IN  SortByTimestamp(SelectSeq(data, LAMBDA d : InWindow(d, cutoffTime)))

Min(S) == CHOOSE x \in S : \A y \in S : x <= y
Max(S) == CHOOSE x \in S : \A y \in S : y <= x

(* mutant: the bare difference, without || 1 *)
OrElse_Bare(x, fallback) == x

(* a - b || c : the right operand when the difference is 0 (falsy) *)
OrElse(x, fallback) == IF x = 0 THEN fallback ELSE x

(* "Calculate scales", the same eight lines in drawChart and handleMouseMove *)
Scale(data) ==
    LET values == {data[i].value : i \in DOMAIN data}
        timestamps == {data[i].timestamp : i \in DOMAIN data}
    IN  [minValue |-> Min(values), maxValue |-> Max(values),
         valueRange |-> OrElse(Max(values) - Min(values), 1),
         minTime |-> Min(timestamps), maxTime |-> Max(timestamps),
         timeRange |-> OrElse(Max(timestamps) - Min(timestamps), 1)]

contentWidth == rect.width - padding.left - padding.right
contentHeight == rect.height - padding.top - padding.bottom

(* x = padding.left + ((t - minTime) / timeRange) * contentWidth,          *)
(* as the pair <<numerator, timeRange>>                                    *)
PixelX(point, sc) ==
    <<padding.left * sc.timeRange + (point.timestamp - sc.minTime) * contentWidth,
      sc.timeRange>>

(* mutant: y grows with the value, from the top edge down *)
PixelY_Inverted(point, sc) ==
    <<padding.top * sc.valueRange + (point.value - sc.minValue) * contentHeight,
      sc.valueRange>>

(* y = height - padding.bottom - ((v - minValue) / valueRange) * contentHeight, *)
(* as the pair <<numerator, valueRange>>                                   *)
PixelY(point, sc) ==
    <<(rect.height - padding.bottom) * sc.valueRange
        - (point.value - sc.minValue) * contentHeight,
      sc.valueRange>>

Marker(point, sc) == [sample |-> point, x |-> PixelX(point, sc), y |-> PixelY(point, sc)]

(* mutant: a path is stroked for a single sample too *)
drawLine_FromOne(data, sc) == [i \in DOMAIN data |-> Marker(data[i], sc)]

(* drawLine: nothing below two samples, else one vertex per sample in order *)
drawLine(data, sc) ==
    IF Len(data) < 2 THEN <<>>
    ELSE [i \in DOMAIN data |-> Marker(data[i], sc)]

(* drawPoints: one arc per sample *)
drawPoints(data, sc) == [i \in DOMAIN data |-> Marker(data[i], sc)]

NoScale == [minValue |-> 0, maxValue |-> 0, valueRange |-> 0,
            minTime |-> 0, maxTime |-> 0, timeRange |-> 0]

(* the canvas after drawChart() run at instant clock *)
drawChart(data0, range, clock) ==
    LET data == getProcessedData(data0, range, clock)
    IN  IF Len(data) = 0
        THEN [at |-> clock, data |-> data, emptyState |-> TRUE, grid |-> FALSE,
              axes |-> FALSE, scale |-> NoScale, line |-> <<>>, points |-> <<>>]
        ELSE LET sc == Scale(data)
             IN  [at |-> clock, data |-> data, emptyState |-> FALSE, grid |-> TRUE,
                  axes |-> TRUE, scale |-> sc,
                  line |-> drawLine(data, sc), points |-> drawPoints(data, sc)]

(* Squared pixel distance from the pointer to a sample, times              *)
(* (timeRange * valueRange)^2; Math.sqrt is monotone, so comparing these   *)
(* compares the distances.                                                 *)
Distance2(mouseX, mouseY, point, sc) ==
    LET dx == (mouseX * sc.timeRange - PixelX(point, sc)[1]) * sc.valueRange
        dy == (mouseY * sc.valueRange - PixelY(point, sc)[1]) * sc.timeRange
    IN  dx * dx + dy * dy

Radius2(sc) == HitRadius * HitRadius * (sc.timeRange * sc.valueRange) * (sc.timeRange * sc.valueRange)

(* mutant: <= against closestDistance, so the last of several nearest wins *)
Closer_LastWins(distance, closestDistance, limit) ==
    (closestDistance = Infinity \/ distance <= closestDistance) /\ distance < limit

(* distance < closestDistance && distance < 15 *)
Closer(distance, closestDistance, limit) ==
    (closestDistance = Infinity \/ distance < closestDistance) /\ distance < limit

(* data.forEach(...) of handleMouseMove over the first n samples:          *)
(* closestDistance starts at Infinity, closestPoint at null                *)
RECURSIVE FindClosest(_, _, _, _, _)
FindClosest(data, n, mouseX, mouseY, sc) ==
    IF n = 0 THEN [point |-> Null, index |-> 0, distance |-> Infinity]
    ELSE LET prev == FindClosest(data, n - 1, mouseX, mouseY, sc)
             distance == Distance2(mouseX, mouseY, data[n], sc)
         IN  IF Closer(distance, prev.distance, Radius2(sc))
             THEN [point |-> data[n], index |-> n, distance |-> distance]
             ELSE prev

NoHit == [at |-> 0, mouseX |-> 0, mouseY |-> 0, data |-> <<>>, scale |-> NoScale,
          closestPoint |-> Null, index |-> 0]

(* pointer positions, relative to the canvas: on the bottom-left corner of  *)
(* the content area, 10 px above it, and 12, 15 and 20 px to its right     *)
MousePositions == {<<50, 50>>, <<50, 40>>, <<62, 50>>, <<65, 50>>, <<70, 50>>}

(* the component mounts: the first render and the first drawChart *)
ChartMount ==
    /\ sensorData \in SeqsUpTo(Samples, MaxLen)
    /\ selectedTimeRange = "1h"
    /\ now = Now0
    /\ canvas = drawChart(sensorData, "1h", Now0)
    /\ hit = NoHit
    /\ tooltip = Null

(* onClick of a range button: setSelectedTimeRange, then the effect on     *)
(* [drawChart] redraws                                                     *)
SetSelectedTimeRange(range) ==
    /\ range # selectedTimeRange
    /\ selectedTimeRange' = range
    /\ canvas' = drawChart(sensorData, range, now)
    /\ hit' = NoHit
    /\ UNCHANGED <<sensorData, now, tooltip, serverVars, restVars>>

(* the parent re-renders with a new sensorData prop, and the effect on     *)
(* [drawChart] redraws.  The new list is the old one with the sample the   *)
(* latest poll added.                                                      *)
SetSensorData(data) ==
    /\ sensorData' = data
    /\ canvas' = drawChart(data, selectedTimeRange, now)
    /\ hit' = NoHit
    /\ UNCHANGED <<selectedTimeRange, now, tooltip, serverVars, restVars>>

NewData ==
    /\ Len(sensorData) < MaxLen
    /\ \E s \in Samples : SetSensorData(Append(sensorData, s))

(* the wall clock advances; nothing is redrawn *)
Tick ==
    /\ now < Now0 + MaxTick
    /\ now' = now + 1
    /\ hit' = NoHit
    /\ UNCHANGED <<sensorData, selectedTimeRange, canvas, tooltip, serverVars, restVars>>

(* onMouseMove *)
handleMouseMove(mouseX, mouseY) ==
    LET data == getProcessedData(sensorData, selectedTimeRange, now)
    IN  IF Len(data) = 0
        THEN /\ hit' = [at |-> now, mouseX |-> mouseX, mouseY |-> mouseY, data |-> data,
                        scale |-> NoScale, closestPoint |-> Null, index |-> 0]
             /\ UNCHANGED <<sensorData, selectedTimeRange, now, canvas, tooltip, serverVars, restVars>>
        ELSE LET sc == Scale(data)
                 found == FindClosest(data, Len(data), mouseX, mouseY, sc)
             IN  /\ hit' = [at |-> now, mouseX |-> mouseX, mouseY |-> mouseY, data |-> data,
                            scale |-> sc, closestPoint |-> found.point, index |-> found.index]
                 /\ tooltip' = IF found.point # Null
                               THEN [x |-> mouseX, y |-> mouseY,
                                     value |-> found.point.value,
                                     time |-> found.point.timestamp]
                               ELSE Null
                 /\ UNCHANGED <<sensorData, selectedTimeRange, now, canvas, serverVars, restVars>>

MouseMove == \E mouse \in MousePositions : handleMouseMove(mouse[1], mouse[2])

(* onMouseLeave *)
MouseLeave ==
    /\ tooltip # Null
    /\ tooltip' = Null
    /\ hit' = NoHit
    /\ UNCHANGED <<sensorData, selectedTimeRange, now, canvas, serverVars, restVars>>

SelectRange == \E range \in timeRanges : SetSelectedTimeRange(range)

ChartNext ==
    \/ NewData
    \/ SelectRange
    \/ Tick
    \/ MouseMove
    \/ MouseLeave

----------------------------------------------------------------------------
(* Server: strings of the query string and the validation middleware *)

(* A query-string value is the sequence of its characters; a parameter the *)
(* request does not carry is Absent.                                       *)
Absent == <<"undefined">>

Digits == {"0", "1", "2", "3", "4", "5", "6", "7", "8", "9"}
Units == {"s", "m", "h", "d", "w"}

StrNow == <<"n", "o", "w", "(", ")">>
StrMinus1h == <<"-", "1", "h">>
StrMinus2h == <<"-", "2", "h">>
Str5m == <<"5", "m">>
StrBogus == <<"b", "o", "g", "u", "s">>

(* /^-?\d+[smhdw]$/ *)
MatchesTimePattern(str) ==
    LET body == IF str # <<>> /\ str[1] = "-" THEN Tail(str) ELSE str
    IN  /\ Len(body) >= 2
        /\ \A i \in 1..(Len(body) - 1) : body[i] \in Digits
        /\ body[Len(body)] \in Units

(* isValidTimeRange of validation.js; no route calls it *)
isValidTimeRange(timeStr) ==
    IF timeStr = Absent \/ timeStr = <<>> THEN FALSE
    ELSE MatchesTimePattern(timeStr) \/ timeStr = StrNow

(* Joi.string().default(d): an absent key takes the default, the empty    *)
(* string is refused, every other string passes                            *)
JoiString(v, default) ==
    IF v = Absent THEN [error |-> FALSE, value |-> default]
    ELSE IF v = <<>> THEN [error |-> TRUE, value |-> v]
    ELSE [error |-> FALSE, value |-> v]

(* validate(schemas.timeRange, 'query'): abortEarly false, stripUnknown    *)
(* true, so keys outside the schema (format) are dropped from req.query    *)
validateTimeRange(query) ==
    LET st == JoiString(query.startTime, StrMinus1h)
        en == JoiString(query.endTime, StrNow)
    IN  [error |-> st.error \/ en.error,
         details |-> {d \in {"startTime", "endTime"} :
                        \/ d = "startTime" /\ st.error
                        \/ d = "endTime" /\ en.error},
         value |-> [startTime |-> st.value, endTime |-> en.value, windowPeriod |-> Str5m]]

(* Joi.string().valid('temperature', 'humidity', 'pressure').required();   *)
(* a key the query string does not carry is "undefined"                    *)
JoiField(v) == [error |-> v \notin {"temperature", "humidity", "pressure"}, value |-> v]

(* validate(schemas.sensorQuery, 'query'): the schema of the time range    *)
(* with a required key field, looked up in the query string                *)
validateSensorQuery(query) ==
    LET fd == JoiField(query.field)
        tr == validateTimeRange(query)
    IN  [error |-> fd.error \/ tr.error,
         details |-> tr.details \cup (IF fd.error THEN {"field"} ELSE {}),
         value |-> [field |-> fd.value, startTime |-> tr.value.startTime,
                    endTime |-> tr.value.endTime, windowPeriod |-> tr.value.windowPeriod]]

----------------------------------------------------------------------------
(* Server: errors and the error handler *)

ValidationError(details) ==
    [name |-> "ValidationError", code |-> "none", details |-> details,
     message |-> "Validation failed"]

(* the error a failed store call rejects with: a socket error with its code *)
StoreError(code) == [name |-> "Error", code |-> code, details |-> {}, message |-> code]

(* socket error codes of a store that cannot be reached *)
UnreachableCodes == {"ECONNREFUSED", "ENOTFOUND", "ETIMEDOUT"}

(* mutant: a timeout is classed as a refused connection *)
ByCode_TimeoutAsRefused(code) ==
    IF code \in {"ECONNREFUSED", "ETIMEDOUT"}
    THEN [status |-> 503, message |-> "Service Unavailable",
          details |-> {"Database or external service connection failed"}]
    ELSE [status |-> 500, message |-> "Internal Server Error", details |-> {}]

(* errorHandler, the branches on err.code and the default *)
ByCode(code) ==
    IF code = "ECONNREFUSED"
    THEN [status |-> 503, message |-> "Service Unavailable",
          details |-> {"Database or external service connection failed"}]
    ELSE IF code = "ETIMEDOUT"
    THEN [status |-> 504, message |-> "Gateway Timeout",
          details |-> {"Request timeout"}]
    ELSE [status |-> 500, message |-> "Internal Server Error", details |-> {}]

(* mutant: the stack is sent whatever the environment *)
IncludeStack_Always(env) == TRUE

(* if (process.env.NODE_ENV === 'development') errorResponse.error.stack = err.stack *)
IncludeStack(env) == env = "development"

(* errorHandler: status, message and details by err.name, then err.code;   *)
(* details (a set, empty for null) only when truthy, the stack only in     *)
(* development                                                             *)
errorHandler(err, env) ==
    LET class ==
            CASE err.name = "ValidationError" ->
                    [status |-> 400, message |-> "Validation Error",
                     \* err.details || err.message
                     details |-> IF err.details # {} THEN err.details ELSE {err.message}]
              [] err.name = "UnauthorizedError" ->
                    [status |-> 401, message |-> "Unauthorized", details |-> {}]
              [] err.name = "ForbiddenError" ->
                    [status |-> 403, message |-> "Forbidden", details |-> {}]
              [] err.name = "NotFoundError" ->
                    [status |-> 404, message |-> "Not Found", details |-> {}]
              [] err.name = "ConflictError" ->
                    [status |-> 409, message |-> "Conflict", details |-> {}]
              [] err.name = "TooManyRequestsError" ->
                    [status |-> 429, message |-> "Too Many Requests", details |-> {}]
              [] OTHER -> ByCode(err.code)
    IN  [status |-> class.status,
         body |-> [success |-> FALSE,
                   error |-> [message |-> class.message, status |-> class.status,
                              details |-> class.details,
                              stack |-> IncludeStack(env)]]]

NoResp == [status |-> 0, body |-> [success |-> FALSE]]

(* asyncHandler: a rejection of the route's promise goes to next(err), and *)
(* so to errorHandler; the process lives on                                *)
asyncHandler(err, env) == [resp |-> errorHandler(err, env), running |-> TRUE]

(* errorHandler on its own: the errors that can be handed to it *)
ErrorNames == {"ValidationError", "UnauthorizedError", "ForbiddenError", "NotFoundError",
               "ConflictError", "TooManyRequestsError", "Error", "TypeError"}

ErrorCodes == {"none", "ECONNREFUSED", "ETIMEDOUT", "ENOTFOUND"}

NodeEnvs == {"development", "production", "test", "undefined"}

Errors == [name : ErrorNames, code : ErrorCodes, details : {{}, {"startTime"}},
           message : {"Validation failed"}]

ErrorsStart ==
    /\ thrown \in Errors
    /\ thrownEnv \in NodeEnvs
    /\ handled = NoResp

(* next(err) reaches errorHandler *)
HandleError ==
    /\ handled = NoResp
    /\ handled' = errorHandler(thrown, thrownEnv)
    /\ UNCHANGED <<thrown, thrownEnv, offErrors>>

ErrorsNext == HandleError

----------------------------------------------------------------------------
(* Server: the time-series store and the queries of services/influxdb.js *)

Fields == <<"temperature", "humidity", "pressure">>
FieldSet == {Fields[i] : i \in DOMAIN Fields}

(* _time of a row: an RFC 3339 string; all rows carry the same precision,  *)
(* so two characters that differ stand for the whole string.  A character  *)
(* is given by its digit.                                                  *)
TimeKeys == {<<0, 9>>, <<1, 0>>}
RowValues == {0, 20}

(* code-unit order of two strings, the order of Array.prototype.sort()     *)
RECURSIVE LexLess(_, _)
LexLess(a, b) ==
    IF b = <<>> THEN FALSE
    ELSE IF a = <<>> THEN TRUE
    ELSE IF a[1] # b[1] THEN a[1] < b[1]
    ELSE LexLess(Tail(a), Tail(b))

(* what one aggregateWindow query can deliver, in the order queryRows      *)
(* hands the rows to next(): one row per non-empty window of a table, the  *)
(* tables (one per tag set of the field) one after the other, so that two  *)
(* rows of different windows come in either order                          *)
RowSeries ==
    {<<>>}
    \cup {<<[time |-> t, value |-> v]>> : t \in TimeKeys, v \in RowValues}
    \cup {rows \in {<<[time |-> t1, value |-> v], [time |-> t2, value |-> v]>> :
                        t1 \in TimeKeys, t2 \in TimeKeys, v \in RowValues} :
            rows[1].time # rows[2].time}

QNone == [state |-> "none", code |-> "none"]
QPending == [state |-> "pending", code |-> "none"]

(* queryRows ends in complete() -> resolve(result) or error(e) -> reject(e) *)
Resolved(result) == [state |-> "ok", code |-> "none", result |-> result]
Rejected(code) == [state |-> "error", code |-> code]

(* getEnvironmentalData(field, ...): the settled promise *)
getEnvironmentalDataOutcomes ==
    {Resolved(rows) : rows \in RowSeries} \cup {Rejected(c) : c \in UnreachableCodes}

(* testConnection(): resolves with {success: true, hasData, ...} *)
testConnectionOutcomes ==
    {Resolved([success |-> TRUE, hasData |-> h]) : h \in BOOLEAN}
    \cup {Rejected(c) : c \in UnreachableCodes}

(* getLatestData(): the last row of each field that has one, given by its  *)
(* age now - dataTime in minutes                                           *)
StaleAfter == 15
RecentAfter == 10
Ages == {RecentAfter - 1, RecentAfter, StaleAfter}
LatestRows == UNION {[S -> Ages] : S \in SUBSET FieldSet}

getLatestDataOutcomes ==
    {Resolved(rows) : rows \in LatestRows} \cup {Rejected(c) : c \in UnreachableCodes}

NoBundle == [state |-> "none"]

(* mutant: a failed field query counts as an empty series *)
JoinAll_Partial(qs) ==
    IF \E f \in FieldSet : qs[f].state = "pending"
    THEN [state |-> "pending"]
    ELSE [state |-> "resolved",
          temperature |-> IF qs["temperature"].state = "ok" THEN qs["temperature"].result ELSE <<>>,
          humidity |-> IF qs["humidity"].state = "ok" THEN qs["humidity"].result ELSE <<>>,
          pressure |-> IF qs["pressure"].state = "ok" THEN qs["pressure"].result ELSE <<>>,
          timestamp |-> "now"]

(* getAllEnvironmentalData: await Promise.all([...]) over the three field  *)
(* queries, rejected by the first that rejects, else the bundle once all   *)
(* three have resolved                                                     *)
JoinAll(qs) ==
    IF \E f \in FieldSet : qs[f].state = "error"
    THEN [state |-> "rejected",
          error |-> StoreError(qs[CHOOSE f \in FieldSet : qs[f].state = "error"].code)]
    ELSE IF \A f \in FieldSet : qs[f].state = "ok"
    THEN [state |-> "resolved",
          temperature |-> qs["temperature"].result,
          humidity |-> qs["humidity"].result,
          pressure |-> qs["pressure"].result,
          timestamp |-> "now"]
    ELSE [state |-> "pending"]

----------------------------------------------------------------------------
(* Server: routes/sensors.js *)

(* GET /data: res.json({success, data, meta}) *)
DataResponse(data, query) ==
    [status |-> 200,
     body |-> [success |-> TRUE, data |-> data,
               meta |-> [startTime |-> query.startTime, endTime |-> query.endTime,
                         windowPeriod |-> query.windowPeriod]]]

(* GET /data/:field with a path field outside validFields *)
InvalidFieldResponse(field) ==
    [status |-> 400,
     body |-> [success |-> FALSE,
               error |-> [message |-> "Invalid field parameter", provided |-> field]]]

(* GET /data/:field: res.json({success, data, meta}) *)
FieldResponse(field, data, query) ==
    [status |-> 200,
     body |-> [success |-> TRUE, data |-> data,
               meta |-> [field |-> field, startTime |-> query.startTime,
                         endTime |-> query.endTime, windowPeriod |-> query.windowPeriod,
                         count |-> Len(data)]]]

(* mutant: a sample exactly ten minutes old counts as recent *)
IsRecent_Inclusive(age) == age <= RecentAfter

(* dataTime > tenMinutesAgo, by the age now - dataTime in minutes *)
IsRecent(age) == age < RecentAfter

(* GET /latest: every field of getLatestData with isRecent and ageMinutes *)
LatestResponse(data) ==
    LET dataStatus == [key \in DOMAIN data |->
                         [ageMinutes |-> data[key], isRecent |-> IsRecent(data[key])]]
    IN  [status |-> 200,
         body |-> [success |-> TRUE,
                   data |-> dataStatus,
                   meta |-> [dataAvailable |-> DOMAIN data # {},
                             allDataRecent |-> \A key \in DOMAIN data : dataStatus[key].isRecent]]]

(* timeValueMap.get(time)[field]: the value of the last point of the       *)
(* series at that time, <<>> when the series has none                      *)
ValueAt(series, time) ==
    LET at == {i \in DOMAIN series : series[i].time = time}
    IN  IF at = {} THEN <<>> ELSE <<series[Max(at)].value>>

(* ${values.field || ''} *)
CsvCell(found) ==
    IF found = <<>> THEN ""
    ELSE IF found[1] = 0 THEN ""
    ELSE ToString(found[1])

(* Array.from(timeValueMap.keys()).sort() *)
RECURSIVE SortedTimes(_)
SortedTimes(keys) ==
    IF keys = {} THEN <<>>
    ELSE LET first == CHOOSE k \in keys : \A other \in keys \ {k} : LexLess(k, other)
         IN  <<first>> \o SortedTimes(keys \ {first})

CsvHeader == "timestamp,temperature,humidity,pressure"

(* GET /export: the CSV text, as its header line and its rows *)
ExportCsv(data) ==
    LET keys == UNION {{data[f][i].time : i \in DOMAIN data[f]} : f \in FieldSet}
        sortedTimes == SortedTimes(keys)
    IN  [header |-> CsvHeader,
         rows |-> [n \in DOMAIN sortedTimes |->
                     [time |-> sortedTimes[n],
                      temperature |-> CsvCell(ValueAt(data.temperature, sortedTimes[n])),
                      humidity |-> CsvCell(ValueAt(data.humidity, sortedTimes[n])),
                      pressure |-> CsvCell(ValueAt(data.pressure, sortedTimes[n]))]]]

ExportResponse(data) ==
    [status |-> 200, body |-> [success |-> TRUE, contentType |-> "text/csv", csv |-> ExportCsv(data)]]

(* GET /export with a format other than csv *)
FormatResponse ==
    [status |-> 400,
     body |-> [success |-> FALSE,
               error |-> [message |-> "Only CSV format is currently supported"]]]

(* mutant: a sample exactly fifteen minutes old still counts as healthy *)
IsHealthy_Inclusive(age) == age <= StaleAfter

(* isHealthy: (now - dataTime) < 15 * 60 * 1000 *)
IsHealthy(age) == age < StaleAfter

(* GET /status: data freshness per field and the overall health *)
StatusResponse(influxDBConnected, latestData) ==
    LET dataFreshness == [key \in DOMAIN latestData |->
                            [minutesAgo |-> latestData[key],
                             isHealthy |-> IsHealthy(latestData[key])]]
        overallHealth == /\ influxDBConnected.success
                         /\ \E key \in DOMAIN dataFreshness : dataFreshness[key].isHealthy
    IN  [status |-> 200,
         body |-> [success |-> TRUE,
                   status |-> [overall |-> IF overallHealth THEN "healthy" ELSE "warning",
                               influxDB |-> [connected |-> influxDBConnected,
                                             status |-> "online"],
                               sensors |-> dataFreshness]]]

NoReq == [route |-> "none"]

StartTimes == {Absent, StrMinus2h, StrBogus, <<>>}
EndTimes == {StrNow, StrBogus}

Requests ==
    [route : {"data"}, query : [startTime : StartTimes, endTime : EndTimes, format : {"undefined"}]]
    \cup [route : {"export"},
          query : [startTime : {Absent, StrBogus}, endTime : {StrNow}, format : {"undefined", "json"}]]
    \cup {[route |-> "status", query |-> [startTime |-> Absent, endTime |-> Absent, format |-> "undefined"]]}
    \cup {[route |-> "latest", query |-> [startTime |-> Absent, endTime |-> Absent, format |-> "undefined"]]}
    \cup [route : {"field"}, path : {"temperature", "wind"},
          query : [field : {"undefined", "temperature", "humidity"}, startTime : {Absent},
                   endTime : {Absent}, format : {"undefined"}]]

NoQueries == [f \in FieldSet |-> QNone]

(* server/index.js has run up to await testConnection() *)
ServerStart ==
    /\ nodeEnv \in {"development", "production"}
    /\ boot = "awaitInflux"
    /\ mqttEvent = "none"
    /\ running = TRUE
    /\ req = NoReq
    /\ queries = NoQueries
    /\ issued = 0
    /\ bundle = NoBundle
    /\ resp = NoResp

(* index.js: await testConnection() settles either way, then               *)
(* initializeMQTT() calls mqtt.connect and waits for 'connect' or 'error'; *)
(* the broker decides which of the two the client emits, if any            *)
BootStoreSettles ==
    /\ boot = "awaitInflux"
    /\ \E outcome \in testConnectionOutcomes, event \in {"connect", "error", "none"} :
          mqttEvent' = event
    /\ boot' = "awaitMqtt"
    /\ UNCHANGED <<nodeEnv, running, req, queries, issued, bundle, resp, chartVars, restVars>>

(* mqttClient.on('connect'): resolve(mqttClient), then app.listen *)
MqttConnect ==
    /\ boot = "awaitMqtt"
    /\ mqttEvent = "connect"
    /\ boot' = "listening"
    /\ mqttEvent' = "none"
    /\ UNCHANGED <<nodeEnv, running, req, queries, issued, bundle, resp, chartVars, restVars>>

(* mqttClient.on('error'): reject(error), caught in initializeServices,    *)
(* then app.listen                                                         *)
MqttError ==
    /\ boot = "awaitMqtt"
    /\ mqttEvent = "error"
    /\ boot' = "listening"
    /\ mqttEvent' = "none"
    /\ UNCHANGED <<nodeEnv, running, req, queries, issued, bundle, resp, chartVars, restVars>>

(* a request arrives once the previous one is answered; it runs through    *)
(* its validation middleware and its handler up to the first await         *)
Receive(r) ==
    /\ boot = "listening"
    /\ running
    /\ req = NoReq \/ resp # NoResp
    /\ req' = r
    /\ bundle' = NoBundle
    /\ IF r.route = "status"
       THEN /\ queries' = [test |-> QPending, latest |-> QNone]
            /\ issued' = 1
            /\ resp' = NoResp
       ELSE IF r.route = "latest"
       THEN /\ queries' = [test |-> QNone, latest |-> QPending]
            /\ issued' = 1
            /\ resp' = NoResp
       ELSE IF r.route = "field"
       THEN LET v == validateSensorQuery(r.query)
            IN  IF v.error
                THEN /\ queries' = NoQueries
                     /\ issued' = 0
                     /\ resp' = errorHandler(ValidationError(v.details), nodeEnv)
                ELSE IF r.path \notin FieldSet
                THEN /\ queries' = NoQueries
                     /\ issued' = 0
                     /\ resp' = InvalidFieldResponse(r.path)
                ELSE /\ queries' = [f \in FieldSet |-> IF f = r.path THEN QPending ELSE QNone]
                     /\ issued' = 1
                     /\ resp' = NoResp
       ELSE LET v == validateTimeRange(r.query)
                format == IF "format" \in DOMAIN v.value THEN v.value.format ELSE "csv"
            IN  IF v.error
                THEN /\ queries' = NoQueries
                     /\ issued' = 0
                     /\ resp' = errorHandler(ValidationError(v.details), nodeEnv)
                ELSE IF r.route = "export" /\ format # "csv"
                THEN /\ queries' = NoQueries
                     /\ issued' = 0
                     /\ resp' = FormatResponse
                ELSE /\ queries' = [f \in FieldSet |-> QPending]
                     /\ issued' = Len(Fields)
                     /\ resp' = NoResp
    /\ UNCHANGED <<nodeEnv, boot, mqttEvent, running, chartVars, restVars>>

Request == \E r \in Requests : Receive(r)

(* one field query of getAllEnvironmentalData settles; Promise.all and the *)
(* rest of the handler run in the same turn                                *)
QuerySettles ==
    /\ req.route \in {"data", "export"}
    /\ resp = NoResp
    /\ \E f \in FieldSet, outcome \in getEnvironmentalDataOutcomes :
          /\ queries[f].state = "pending"
          /\ queries' = [queries EXCEPT ![f] = outcome]
          /\ bundle' = JoinAll(queries')
          /\ IF bundle'.state = "rejected"
             THEN /\ resp' = asyncHandler(bundle'.error, nodeEnv).resp
                  /\ running' = asyncHandler(bundle'.error, nodeEnv).running
             ELSE /\ running' = running
                  /\ resp' = IF bundle'.state = "resolved"
                             THEN IF req.route = "data"
                                  THEN DataResponse(bundle', validateTimeRange(req.query).value)
                                  ELSE ExportResponse(bundle')
                             ELSE NoResp
    /\ UNCHANGED <<nodeEnv, boot, mqttEvent, req, issued, chartVars, restVars>>

(* GET /data/:field: await getEnvironmentalData(field, ...) settles *)
FieldQuerySettles ==
    /\ req.route = "field"
    /\ resp = NoResp
    /\ queries[req.path].state = "pending"
    /\ \E outcome \in getEnvironmentalDataOutcomes :
          /\ queries' = [queries EXCEPT ![req.path] = outcome]
          /\ IF outcome.state = "error"
             THEN /\ resp' = asyncHandler(StoreError(outcome.code), nodeEnv).resp
                  /\ running' = asyncHandler(StoreError(outcome.code), nodeEnv).running
             ELSE /\ resp' = FieldResponse(req.path, outcome.result,
                                           validateSensorQuery(req.query).value)
                  /\ running' = running
    /\ UNCHANGED <<nodeEnv, boot, mqttEvent, req, issued, bundle, chartVars, restVars>>

(* GET /latest: await getLatestData() settles *)
LatestSettles ==
    /\ req.route = "latest"
    /\ resp = NoResp
    /\ queries.latest.state = "pending"
    /\ \E outcome \in getLatestDataOutcomes :
          /\ queries' = [queries EXCEPT !.latest = outcome]
          /\ IF outcome.state = "error"
             THEN /\ resp' = asyncHandler(StoreError(outcome.code), nodeEnv).resp
                  /\ running' = asyncHandler(StoreError(outcome.code), nodeEnv).running
             ELSE /\ resp' = LatestResponse(outcome.result)
                  /\ running' = running
    /\ UNCHANGED <<nodeEnv, boot, mqttEvent, req, issued, bundle, chartVars, restVars>>

(* GET /status: await testConnection() settles *)
StatusTestSettles ==
    /\ req.route = "status"
    /\ resp = NoResp
    /\ queries.test.state = "pending"
    /\ \E outcome \in testConnectionOutcomes :
          IF outcome.state = "error"
          THEN /\ queries' = [queries EXCEPT !.test = outcome]
               /\ issued' = issued
               /\ resp' = asyncHandler(StoreError(outcome.code), nodeEnv).resp
               /\ running' = asyncHandler(StoreError(outcome.code), nodeEnv).running
          ELSE /\ queries' = [test |-> outcome, latest |-> QPending]
               /\ issued' = issued + 1
               /\ resp' = NoResp
               /\ running' = running
    /\ UNCHANGED <<nodeEnv, boot, mqttEvent, req, bundle, chartVars, restVars>>

(* GET /status: await getLatestData() settles *)
StatusLatestSettles ==
    /\ req.route = "status"
    /\ resp = NoResp
    /\ queries.latest.state = "pending"
    /\ \E outcome \in getLatestDataOutcomes :
          /\ queries' = [queries EXCEPT !.latest = outcome]
          /\ IF outcome.state = "error"
             THEN /\ resp' = asyncHandler(StoreError(outcome.code), nodeEnv).resp
                  /\ running' = asyncHandler(StoreError(outcome.code), nodeEnv).running
             ELSE /\ resp' = StatusResponse(queries.test.result, outcome.result)
                  /\ running' = running
    /\ UNCHANGED <<nodeEnv, boot, mqttEvent, req, issued, bundle, chartVars, restVars>>

ServerNext ==
    \/ BootStoreSettles
    \/ MqttConnect
    \/ MqttError
    \/ Request
    \/ QuerySettles
    \/ FieldQuerySettles
    \/ LatestSettles
    \/ StatusTestSettles
    \/ StatusLatestSettles

----------------------------------------------------------------------------
(* Client: the hook useSensorData and the error banner of App              *)

MaxFetches == 3

(* what GET /sensors/data can answer: a body, or an error thrown by axios  *)
(* whose message is the text                                               *)
Series == {<<>>, <<1>>, <<2>>}

Bodies == {[success |-> TRUE, data |-> d] : d \in Series} \cup
          {[success |-> FALSE, data |-> <<1>>]}

ErrorTexts == {"", "Network error. Please check your connection."}

(* sensorAPI.getData: response.data.success ? response.data.data : [] *)
getData(body) == IF body.success THEN body.data ELSE <<>>

(* a state that holds a value, as opposed to Null *)
Held(value) == [value |-> value]

(* err.message || 'Failed to fetch sensor data' *)
ErrorMessage(text) == IF text = "" THEN "Failed to fetch sensor data" ELSE text

(* App: useEffect(() => { if (sensorError) setError(sensorError) }, [sensorError]) *)
(* runs after a render in which sensorError differs from the render before *)
AppEffect(before, after, banner) ==
    IF after # before /\ after # Null THEN after ELSE banner

(* setSensorData(data) in call number call, newest being the call started  *)
(* last: the state is replaced whichever call it is                        *)
setSensorData_IfNewest(current, call, newest, data) ==
    IF call = newest THEN Held(data) ELSE current

setSensorData(current, call, newest, data) == Held(data)

(* an entry of the completion history *)
Completed(call, ok, data, text) == [call |-> call, ok |-> ok, data |-> data, text |-> text]

(* state after the first render and its effects: the mount effect has      *)
(* called fetchSensorData, the interval is armed                           *)
ClientMount ==
    /\ hookData = Null
    /\ loading = TRUE
    /\ sensorError = Null
    /\ error = Null
    /\ inflight = {1}
    /\ started = 1
    /\ done = <<>>

(* fetchSensorData up to its await *)
fetchSensorData ==
    /\ started < MaxFetches
    /\ started' = started + 1
    /\ inflight' = inflight \cup {started + 1}
    /\ loading' = TRUE
    /\ sensorError' = Null
    /\ error' = AppEffect(sensorError, Null, error)
    /\ UNCHANGED <<hookData, done, offClient>>

(* setInterval(fetchSensorData, 30000) fires *)
IntervalTick == fetchSensorData

(* the caller of the hook invokes refetch *)
Refetch == fetchSensorData

(* the await of call f returns: setSensorData(data), finally setLoading(false) *)
FetchSucceeds ==
    \E f \in inflight, body \in Bodies :
        /\ inflight' = inflight \ {f}
        /\ hookData' = setSensorData(hookData, f, started, getData(body))
        /\ loading' = FALSE
        /\ done' = Append(done, Completed(f, TRUE, getData(body), ""))
        /\ UNCHANGED <<sensorError, error, started, offClient>>

(* the await of call f throws: setError(...), finally setLoading(false) *)
FetchFails ==
    \E f \in inflight, text \in ErrorTexts :
        /\ inflight' = inflight \ {f}
        /\ sensorError' = Held(ErrorMessage(text))
        /\ error' = AppEffect(sensorError, sensorError', error)
        /\ loading' = FALSE
        /\ done' = Append(done, Completed(f, FALSE, <<>>, ErrorMessage(text)))
        /\ UNCHANGED <<hookData, started, offClient>>

(* ErrorDisplay: the dismiss button, rendered only while the banner is *)
Dismiss ==
    /\ error # Null
    /\ error' = Null
    /\ UNCHANGED <<hookData, loading, sensorError, inflight, started, done,
                   offClient>>

ClientNext ==
    \/ IntervalTick
    \/ Refetch
    \/ FetchSucceeds
    \/ FetchFails
    \/ Dismiss

----------------------------------------------------------------------------
(* Server: routes/devices.js over services/mqtt.js                         *)

MaxDeviceRequests == 2

MaxDeletes == 1

DeviceIds == {"esp32-a"}

(* request bodies; a key the body does not carry is "undefined" *)
CommandBodies == {[command |-> c] : c \in {"reboot", "undefined"}}

ConfigBodies == {[configType |-> t, settings |-> [reportingInterval |-> 30]] :
                    t \in {"sampling", "undefined"}}

SettingsBodies ==
    [deviceName : {"Porch", "undefined", ""}]
    \cup {[deviceName |-> "undefined", reportingInterval |-> 30]}

(* validate(schemas.deviceCommand, 'body'): command required, the defaults *)
(* filled in                                                               *)
validateDeviceCommand(body) ==
    [error |-> body.command \in {"undefined", ""},
     details |-> IF body.command \in {"undefined", ""} THEN {"command"} ELSE {},
     value |-> [command |-> body.command, priority |-> "normal", timeout |-> 5000]]

(* validate(schemas.deviceConfig, 'body'): configType and settings required *)
validateDeviceConfig(body) ==
    [error |-> body.configType \in {"undefined", ""},
     details |-> IF body.configType \in {"undefined", ""} THEN {"configType"} ELSE {},
     value |-> [configType |-> body.configType, settings |-> body.settings,
                applyImmediately |-> TRUE]]

(* schemas.generalSettings: the .default(...) of three of its keys *)
SettingsDefaults ==
    [reportingInterval |-> 60, deepSleepEnabled |-> FALSE, deepSleepDuration |-> 300]

(* validate(schemas.generalSettings, 'body'): deviceName optional but not  *)
(* empty, the defaults filled in                                           *)
validateGeneralSettings(body) ==
    LET defaults == [reportingInterval |-> IF "reportingInterval" \in DOMAIN body
                                           THEN body.reportingInterval
                                           ELSE SettingsDefaults.reportingInterval,
                     deepSleepEnabled |-> SettingsDefaults.deepSleepEnabled,
                     deepSleepDuration |-> SettingsDefaults.deepSleepDuration]
    IN  [error |-> body.deviceName = "",
         details |-> IF body.deviceName = "" THEN {"deviceName"} ELSE {},
         value |-> IF body.deviceName = "undefined" THEN defaults
                   ELSE [k \in DOMAIN defaults \cup {"deviceName"} |->
                           IF k = "deviceName" THEN body.deviceName ELSE defaults[k]]]

(* POST /:deviceId/restart has no validation middleware; its command is    *)
(* built by the route                                                      *)
restartCommand == [command |-> "restart", parameters |-> [delay |-> 2000]]

validateBody(route, body) ==
    CASE route = "commands" -> validateDeviceCommand(body)
      [] route = "config" -> validateDeviceConfig(body)
      [] route = "settings" -> validateGeneralSettings(body)
      [] route = "restart" -> [error |-> FALSE, details |-> {}, value |-> restartCommand]

(* mutant: the routes take the broker for connected whatever its state *)
isConnected_Always(client) == TRUE

(* isConnected: mqttClient && mqttClient.connected *)
isConnected(client) == IF client = Null THEN FALSE ELSE client.connected

(* { ...a, ...b } *)
Spread(a, b) ==
    [k \in DOMAIN a \cup DOMAIN b |-> IF k \in DOMAIN b THEN b[k] ELSE a[k]]

NoConfiguration == [k \in {} |-> 0]

(* the message of sendDeviceCommand / sendDeviceConfig, by its topic and   *)
(* the request it comes from                                               *)
Message(topic, n, deviceId, payload) ==
    [topic |-> topic, request |-> n, deviceId |-> deviceId, payload |-> payload]

(* what a route publishes: its topic and payload *)
RouteMessage(route, n, deviceId, value) ==
    CASE route = "commands" -> Message("sensors/commands", n, deviceId, value)
      [] route = "config" -> Message("sensors/config", n, deviceId, value)
      [] route = "settings" ->
            Message("sensors/config", n, deviceId,
                    [configType |-> "general_settings", settings |-> value,
                     applyImmediately |-> TRUE])
      [] route = "restart" -> Message("sensors/commands", n, deviceId, value)

(* mutant: the guard of the command, config and restart updates always    *)
(* passes, the entry being made when there is none                        *)
has_OrCreate(registry, deviceId) == TRUE

(* deviceRegistry.has(deviceId) *)
has(registry, deviceId) == deviceId \in DOMAIN registry

(* the entry of a device under update: the stored one, or a fresh one *)
Entry(registry, deviceId, name) ==
    IF deviceId \in DOMAIN registry THEN registry[deviceId]
    ELSE [id |-> deviceId, name |-> name, status |-> "unknown",
          configuration |-> NoConfiguration, lastCommand |-> Null, lastConfig |-> Null]

(* deviceRegistry.set(deviceId, device) *)
Set(registry, deviceId, device) ==
    [id \in DOMAIN registry \cup {deviceId} |->
        IF id = deviceId THEN device ELSE registry[id]]

(* the registry after the route's update that follows a successful publish *)
RegistryAfter(registry, route, n, deviceId, value) ==
    CASE route \in {"commands", "restart"} ->
            IF has(registry, deviceId)
            THEN Set(registry, deviceId,
                     [Entry(registry, deviceId, deviceId) EXCEPT
                         !.lastCommand = [command |-> value.command, id |-> n]])
            ELSE registry
      [] route = "config" ->
            IF has(registry, deviceId)
            THEN Set(registry, deviceId,
                     [Entry(registry, deviceId, deviceId) EXCEPT
                         !.lastConfig = [configType |-> value.configType, id |-> n],
                         !.configuration = Spread(@, value.settings)])
            ELSE registry
      [] route = "settings" ->
            LET device == Entry(registry, deviceId,
                                IF "deviceName" \in DOMAIN value
                                THEN value.deviceName ELSE deviceId)
                updated == [device EXCEPT
                               !.configuration = Spread(@, value),
                               !.name = IF "deviceName" \in DOMAIN value
                                        THEN value.deviceName ELSE @]
            IN  Set(registry, deviceId, updated)

(* let messageHandlers = new Map() *)
NoHandlers == [topic \in {} |-> <<>>]

(* the module-level state of mqtt.js and devices.js at load *)
DevicesStart ==
    /\ mqttClient = Null
    /\ deviceRegistry = [id \in {} |-> Null]
    /\ published = <<>>
    /\ devReqs = <<>>
    /\ messageHandlers = NoHandlers
    /\ subCalls = <<>>
    /\ invoked = <<>>

(* initializeMQTT: mqttClient = mqtt.connect(...) *)
MqttCreate ==
    /\ mqttClient = Null
    /\ mqttClient' = [connected |-> FALSE]
    /\ UNCHANGED <<deviceRegistry, published, devReqs, offDevices>>

(* the client reaches the broker *)
BrokerUp ==
    /\ mqttClient # Null
    /\ ~mqttClient.connected
    /\ mqttClient' = [connected |-> TRUE]
    /\ UNCHANGED <<deviceRegistry, published, devReqs, offDevices>>

(* the connection to the broker is lost *)
BrokerDown ==
    /\ mqttClient # Null
    /\ mqttClient.connected
    /\ mqttClient' = [connected |-> FALSE]
    /\ UNCHANGED <<deviceRegistry, published, devReqs, offDevices>>

(* the number of requests received on the routes in R *)
Received_On(reqs, R) == Cardinality({n \in DOMAIN reqs : reqs[n].route \in R})

Posts(reqs) == Received_On(reqs, {"commands", "config", "settings", "restart"})

(* POST /:deviceId/commands, /config, /settings, /restart up to the await: *)
(* body validation, the isMQTTConnected() test, and publishMessage up to   *)
(* mqttClient.publish                                                      *)
DeviceReceive(route, deviceId, body) ==
    LET n == Len(devReqs) + 1
        v == validateBody(route, body)
        entry(status, sent) ==
            [route |-> route, deviceId |-> deviceId, body |-> body, value |-> v.value,
             status |-> status, sent |-> sent]
    IN  /\ Posts(devReqs) < MaxDeviceRequests
        /\ IF v.error
           THEN /\ devReqs' = Append(devReqs,
                                entry(errorHandler(ValidationError(v.details), nodeEnv).status, FALSE))
                /\ published' = published
           ELSE IF ~isConnected(mqttClient)
           THEN /\ devReqs' = Append(devReqs, entry(503, FALSE))
                /\ published' = published
           ELSE IF mqttClient = Null \/ ~mqttClient.connected
           THEN \* publishMessage rejects, the route's catch answers
                /\ devReqs' = Append(devReqs, entry(500, FALSE))
                /\ published' = published
           ELSE /\ devReqs' = Append(devReqs, entry(0, TRUE))
                /\ published' = Append(published, RouteMessage(route, n, deviceId, v.value))
        /\ UNCHANGED <<mqttClient, deviceRegistry, offDevices>>

DeviceRequest ==
    \/ \E id \in DeviceIds, body \in CommandBodies : DeviceReceive("commands", id, body)
    \/ \E id \in DeviceIds, body \in ConfigBodies : DeviceReceive("config", id, body)
    \/ \E id \in DeviceIds, body \in SettingsBodies : DeviceReceive("settings", id, body)
    \/ \E id \in DeviceIds : DeviceReceive("restart", id, Null)

(* DELETE /:deviceId: 404 for a device not registered, else the entry is   *)
(* deleted and the answer is 200; no await in between                      *)
DeleteDevice(deviceId) ==
    LET entry(status) == [route |-> "delete", deviceId |-> deviceId, body |-> Null,
                          value |-> Null, status |-> status, sent |-> FALSE]
    IN  /\ Received_On(devReqs, {"delete"}) < MaxDeletes
        /\ IF ~has(deviceRegistry, deviceId)
           THEN /\ devReqs' = Append(devReqs, entry(404))
                /\ deviceRegistry' = deviceRegistry
           ELSE /\ devReqs' = Append(devReqs, entry(200))
                /\ deviceRegistry' = [id \in DOMAIN deviceRegistry \ {deviceId} |->
                                         deviceRegistry[id]]
        /\ UNCHANGED <<mqttClient, published, offDevices>>

DeleteRequest == \E id \in DeviceIds : DeleteDevice(id)

(* the callback of mqttClient.publish: without an error the route updates  *)
(* the registry and answers 200, with one its catch answers 500            *)
PublishCallback ==
    \E n \in DOMAIN devReqs, failed \in BOOLEAN :
        /\ devReqs[n].status = 0
        /\ IF failed
           THEN /\ devReqs' = [devReqs EXCEPT ![n].status = 500]
                /\ deviceRegistry' = deviceRegistry
           ELSE /\ devReqs' = [devReqs EXCEPT ![n].status = 200]
                /\ deviceRegistry' = RegistryAfter(deviceRegistry, devReqs[n].route, n,
                                                   devReqs[n].deviceId, devReqs[n].value)
        /\ UNCHANGED <<mqttClient, published, offDevices>>

DevicesNext ==
    \/ MqttCreate
    \/ BrokerUp
    \/ BrokerDown
    \/ DeviceRequest
    \/ DeleteRequest
    \/ PublishCallback

----------------------------------------------------------------------------
(* Server: the handler registry of services/mqtt.js                        *)

MaxSubscribes == 2

MaxMessages == 2

(* the topics the 'connect' listener subscribes to, of which one is taken *)
EssentialTopics == {"sensors/data"}

Topics == EssentialTopics \cup {"sensors/alerts"}

Handlers == {"onData", "onAlert"}

(* messageHandlers.get(topic) || [] *)
HandlersFor(handlers, topic) == IF topic \in DOMAIN handlers THEN handlers[topic] ELSE <<>>

(* if (!messageHandlers.has(topic)) messageHandlers.set(topic, []);        *)
(* messageHandlers.get(topic).push(handler)                                *)
Push(handlers, topic, handler) ==
    [t \in DOMAIN handlers \cup {topic} |->
        IF t = topic THEN Append(HandlersFor(handlers, topic), handler) ELSE handlers[t]]

(* subscribeToTopic(topic, handler) up to mqttClient.subscribe: rejected   *)
(* at once without a client, else the handler is pushed and the            *)
(* subscription is sent                                                    *)
subscribeToTopic(topic, handler) ==
    LET call(status) == [topic |-> topic, handler |-> handler, status |-> status]
    IN  /\ Len(subCalls) < MaxSubscribes
        /\ IF mqttClient = Null
           THEN /\ subCalls' = Append(subCalls, call("not initialized"))
                /\ messageHandlers' = messageHandlers
           ELSE /\ subCalls' = Append(subCalls, call("pending"))
                /\ messageHandlers' = Push(messageHandlers, topic, handler)
        /\ UNCHANGED <<invoked, offHandlers>>

Subscribe == \E topic \in Topics, handler \in Handlers : subscribeToTopic(topic, handler)

(* the callback of mqttClient.subscribe: reject(error) or resolve() *)
SubscribeCallback ==
    \E n \in DOMAIN subCalls, failed \in BOOLEAN :
        /\ subCalls[n].status = "pending"
        /\ subCalls' = [subCalls EXCEPT ![n].status = IF failed THEN "rejected" ELSE "resolved"]
        /\ UNCHANGED <<messageHandlers, invoked, offHandlers>>

(* the broker delivers messages of a topic the client is subscribed to:    *)
(* one of the 'connect' listener's, or one a subscribeToTopic call got     *)
Delivers(topic) ==
    \/ topic \in EssentialTopics
    \/ \E n \in DOMAIN subCalls : subCalls[n].topic = topic /\ subCalls[n].status = "resolved"

(* mqttClient.on('message'): every handler registered for the topic is     *)
(* called, in order                                                        *)
OnMessage(topic) ==
    /\ Len(invoked) < MaxMessages
    /\ isConnected(mqttClient)
    /\ Delivers(topic)
    /\ invoked' = Append(invoked, [topic |-> topic,
                                   handlers |-> HandlersFor(messageHandlers, topic),
                                   calls |-> subCalls])
    /\ UNCHANGED <<messageHandlers, subCalls, offHandlers>>

MessageArrives == \E topic \in Topics : OnMessage(topic)

HandlersNext ==
    \/ MqttCreate
    \/ BrokerUp
    \/ BrokerDown
    \/ Subscribe
    \/ SubscribeCallback
    \/ MessageArrives

----------------------------------------------------------------------------
(* Client: TimeSeriesChart, the resize listener                            *)

MaxResizes == 3
MaxClock == 400
TimeStep == 50

(* the delay of setTimeout(drawChart, 100) *)
ResizeDelay == 100

ResizeMount ==
    /\ resizeClock = 0
    /\ timers = <<>>
    /\ resizeEvents = <<>>
    /\ redrawTimes = <<>>

(* handleResize: setTimeout(drawChart, 100); the timer is not kept and a   *)
(* pending one is not cleared                                              *)
handleResize ==
    /\ Len(resizeEvents) < MaxResizes
    /\ timers' = Append(timers, resizeClock + ResizeDelay)
    /\ resizeEvents' = Append(resizeEvents, resizeClock)
    /\ UNCHANGED <<resizeClock, redrawTimes, canvas, offResize>>

(* the oldest pending timer is due: drawChart runs *)
ResizeTimerFires ==
    /\ timers # <<>>
    /\ Head(timers) <= resizeClock
    /\ timers' = Tail(timers)
    /\ canvas' = drawChart(sensorData, selectedTimeRange, now)
    /\ redrawTimes' = Append(redrawTimes, resizeClock)
    /\ UNCHANGED <<resizeClock, resizeEvents, offResize>>

(* time passes while no timer is due *)
ResizeWait ==
    /\ resizeClock < MaxClock
    /\ IF timers = <<>> THEN TRUE ELSE Head(timers) > resizeClock
    /\ resizeClock' = resizeClock + TimeStep
    /\ UNCHANGED <<timers, resizeEvents, redrawTimes, canvas, offResize>>

ResizeNext ==
    \/ handleResize
    \/ ResizeTimerFires
    \/ ResizeWait

----------------------------------------------------------------------------
(* Client: utils/helpers.js, timeRangeToMs                                 *)

MaxN == 2

NotCalled == -1

(* the decimal numeral of n *)
RECURSIVE Decimal(_)
Decimal(n) ==
    IF n < 10 THEN <<ToString(n)>>
    ELSE Decimal(n \div 10) \o <<ToString(n % 10)>>

(* strings given to timeRangeToMs: numerals with or without a minus sign   *)
(* and a leading zero, followed by a unit; and strings of other shapes     *)
TimeRangeStrings ==
    {sign \o pad \o Decimal(n) \o <<u>> :
        sign \in {<<>>, <<"-">>}, pad \in {<<>>, <<"0">>}, n \in 0..MaxN, u \in Units}
    \cup {StrBogus, StrNow, <<>>, <<"h">>, <<"2">>}

(* mutant: the pattern with an optional minus sign, /^-?(\d+)([smhdw])$/ *)
match_Signed(str) ==
    LET body == IF str # <<>> /\ str[1] = "-" THEN Tail(str) ELSE str
    IN  IF /\ Len(body) >= 2
           /\ \A i \in 1..(Len(body) - 1) : body[i] \in Digits
           /\ body[Len(body)] \in Units
        THEN [number |-> SubSeq(body, 1, Len(body) - 1), unit |-> body[Len(body)]]
        ELSE Null

(* timeRange.match(/^(\d+)([smhdw])$/): the two groups, or null *)
match(str) ==
    IF /\ Len(str) >= 2
       /\ \A i \in 1..(Len(str) - 1) : str[i] \in Digits
       /\ str[Len(str)] \in Units
    THEN [number |-> SubSeq(str, 1, Len(str) - 1), unit |-> str[Len(str)]]
    ELSE Null

(* parseInt of a string of decimal digits *)
RECURSIVE parseInt(_)
parseInt(digits) ==
    IF digits = <<>> THEN 0
    ELSE parseInt(SubSeq(digits, 1, Len(digits) - 1)) * 10
         + (CHOOSE d \in 0..9 : ToString(d) = digits[Len(digits)])

(* the table units of timeRangeToMs, in milliseconds *)
units(unit) ==
    CASE unit = "s" -> 1000
      [] unit = "m" -> 60 * 1000
      [] unit = "h" -> 60 * 60 * 1000
      [] unit = "d" -> 24 * 60 * 60 * 1000
      [] unit = "w" -> 7 * 24 * 60 * 60 * 1000

timeRangeToMs(timeRange) ==
    LET found == match(timeRange)
    IN  IF found = Null THEN 0
        ELSE parseInt(found.number) * units(found.unit)

HelpersStart ==
    /\ helperArg \in TimeRangeStrings
    /\ helperOut = NotCalled

CallTimeRangeToMs ==
    /\ helperOut = NotCalled
    /\ helperOut' = timeRangeToMs(helperArg)
    /\ UNCHANGED <<helperArg, offHelpers>>

HelpersNext == CallTimeRangeToMs

----------------------------------------------------------------------------
(* Specifications: each component with the others left alone               *)

ServerOff ==
    /\ nodeEnv = "development"
    /\ boot = "awaitInflux"
    /\ mqttEvent = "none"
    /\ running = TRUE
    /\ req = NoReq
    /\ queries = NoQueries
    /\ issued = 0
    /\ bundle = NoBundle
    /\ resp = NoResp

ChartOff ==
    /\ sensorData = <<>>
    /\ selectedTimeRange = "1h"
    /\ now = Now0
    /\ canvas = drawChart(<<>>, "1h", Now0)
    /\ hit = NoHit
    /\ tooltip = Null

ClientOff ==
    /\ hookData = Null
    /\ loading = FALSE
    /\ sensorError = Null
    /\ error = Null
    /\ inflight = {}
    /\ started = 0
    /\ done = <<>>

HelpersOff ==
    /\ helperArg = <<>>
    /\ helperOut = NotCalled

(* every component but the chart, the server, the hook: not started *)
ErrorsOff ==
    /\ thrown = StoreError("none")
    /\ thrownEnv = "development"
    /\ handled = NoResp

RestOff == HelpersOff /\ ResizeMount /\ DevicesStart /\ ErrorsOff

ChartInit == ChartMount /\ ServerOff /\ ClientOff /\ RestOff

ServerInit == ServerStart /\ ChartOff /\ ClientOff /\ RestOff

ClientInit == ClientMount /\ ChartOff /\ ServerOff /\ RestOff

(* the chart, the server and the hook: not started *)
MainOff == ChartOff /\ ServerOff /\ ClientOff

HelpersInit == HelpersStart /\ MainOff /\ ResizeMount /\ DevicesStart /\ ErrorsOff

ResizeInit == ResizeMount /\ MainOff /\ HelpersOff /\ DevicesStart /\ ErrorsOff

DevicesInit == DevicesStart /\ MainOff /\ HelpersOff /\ ResizeMount /\ ErrorsOff

ErrorsInit == ErrorsStart /\ MainOff /\ HelpersOff /\ ResizeMount /\ DevicesStart

SpecChart == ChartInit /\ [][ChartNext]_vars

SpecServer == ServerInit /\ [][ServerNext]_vars

SpecClient == ClientInit /\ [][ClientNext]_vars

SpecHelpers == HelpersInit /\ [][HelpersNext]_vars

SpecResize == ResizeInit /\ [][ResizeNext]_vars

SpecDevices == DevicesInit /\ [][DevicesNext]_vars

SpecErrors == ErrorsInit /\ [][ErrorsNext]_vars

SpecHandlers == DevicesInit /\ [][HandlersNext]_vars

(* the event loop runs every callback whose event has arrived *)
LiveServer == SpecServer /\ WF_vars(ServerNext)

----------------------------------------------------------------------------
(* Properties of the chart *)

Count(seq, x) == Cardinality({i \in DOMAIN seq : seq[i] = x})

(* result holds exactly the samples of input at or after clock - window,   *)
(* each as often as input does, in ascending order of timestamp            *)
Windowed(result, input, range, clock) ==
    /\ \A s \in Samples :
          Count(result, s) = IF s.timestamp >= clock - timeRangeMs(range)
                             THEN Count(input, s) ELSE 0
    /\ \A i, j \in DOMAIN result : i < j => result[i].timestamp <= result[j].timestamp

(* C2: for every sample list, display window and instant, getProcessedData *)
(* returns exactly the input samples with timestamp >= now - window        *)
(* duration (none dropped, none kept from outside), sorted ascending by    *)
(* timestamp; an empty input gives an empty output.  Checked on the data   *)
(* drawChart and handleMouseMove obtained.                                 *)
C2_WindowExact ==
    /\ Windowed(canvas.data, sensorData, selectedTimeRange, canvas.at)
    /\ hit # NoHit => Windowed(hit.data, sensorData, selectedTimeRange, hit.at)
    /\ sensorData = <<>> => canvas.data = <<>>

(* an unsorted input whose two samples are both inside the 24 h window *)
C2_Witness ==
    /\ selectedTimeRange = "24h"
    /\ Len(sensorData) = 2
    /\ sensorData[1].timestamp > sensorData[2].timestamp
    /\ Len(canvas.data) = 2

HitDistance(i) == Distance2(hit.mouseX, hit.mouseY, hit.data[i], hit.scale)

Nearest == {i \in DOMAIN hit.data : \A j \in DOMAIN hit.data : HitDistance(i) <= HitDistance(j)}

(* C3: on a pointer move over a non-empty window a sample is selected iff  *)
(* the least pixel distance to a sample is below 15 px; the selected one   *)
(* is the first in sequence order at that least distance; the tooltip      *)
(* shows it, and is cleared when none is selected.  Over an empty window   *)
(* nothing is selected.                                                    *)
C3_NearestSample ==
    hit # NoHit =>
        IF hit.data = <<>>
        THEN hit.closestPoint = Null
        ELSE /\ hit.closestPoint # Null
                  <=> \E i \in DOMAIN hit.data : HitDistance(i) < Radius2(hit.scale)
             /\ hit.closestPoint # Null =>
                    /\ hit.index = Min(Nearest)
                    /\ hit.closestPoint = hit.data[Min(Nearest)]
                    /\ tooltip = [x |-> hit.mouseX, y |-> hit.mouseY,
                                  value |-> hit.closestPoint.value,
                                  time |-> hit.closestPoint.timestamp]
             /\ hit.closestPoint = Null => tooltip = Null

(* two different samples equally near the pointer, the first selected *)
C3_Witness ==
    /\ hit # NoHit
    /\ hit.closestPoint # Null
    /\ \E i \in DOMAIN hit.data :
          /\ i # hit.index
          /\ hit.data[i] # hit.closestPoint
          /\ HitDistance(i) = HitDistance(hit.index)

(* r is the range of the numbers in S as the scale must have it *)
IsRange(r, S) ==
    IF \A x, y \in S : x = y
    THEN r = 1
    ELSE \E lo, hi \in S : (\A x \in S : lo <= x /\ x <= hi) /\ r = hi - lo

ScaleSound(sc, data) ==
    /\ sc.valueRange # 0
    /\ sc.timeRange # 0
    /\ IsRange(sc.valueRange, {data[i].value : i \in DOMAIN data})
    /\ IsRange(sc.timeRange, {data[i].timestamp : i \in DOMAIN data})

(* C4: for every windowed series with a sample, the divisors valueRange    *)
(* and timeRange of drawChart and of handleMouseMove are never 0: 1 when   *)
(* all values (all timestamps) are equal, max - min otherwise.             *)
C4_NoZeroRange ==
    /\ canvas.data # <<>> => ScaleSound(canvas.scale, canvas.data)
    /\ (hit # NoHit /\ hit.data # <<>>) => ScaleSound(hit.scale, hit.data)

(* a pointer move over two samples of equal value at different times *)
C4_Witness ==
    /\ hit # NoHit
    /\ Len(hit.data) = 2
    /\ hit.data[1].value = hit.data[2].value
    /\ hit.data[1].timestamp # hit.data[2].timestamp
    /\ canvas.data = hit.data

Highest(data, i) == \A j \in DOMAIN data : data[j].value <= data[i].value
Lowest(data, i) == \A j \in DOMAIN data : data[i].value <= data[j].value

(* the rational y = <<numerator, denominator>> is the pixel row c *)
AtRow(y, c) == y[1] = c * y[2]

TopEdge == padding.top
BottomEdge == rect.height - padding.bottom

(* C5 as stated: in every non-empty windowed series the highest sample is  *)
(* drawn at y = padding.top and the lowest at y = height - padding.bottom. *)
C5_ExtremesAtEdges ==
    \A i \in DOMAIN canvas.points :
        /\ Highest(canvas.data, i) => AtRow(canvas.points[i].y, TopEdge)
        /\ Lowest(canvas.data, i) => AtRow(canvas.points[i].y, BottomEdge)

(* C5 amended: the same when the series has two different values; when    *)
(* all its values are equal every sample is drawn at the bottom edge.      *)
C5_ExtremesAtEdgesUnlessFlat ==
    /\ Len(canvas.points) = Len(canvas.data)
    /\ \A i \in DOMAIN canvas.points :
        IF \E j, k \in DOMAIN canvas.data : canvas.data[j].value # canvas.data[k].value
        THEN /\ Highest(canvas.data, i) => AtRow(canvas.points[i].y, TopEdge)
             /\ Lowest(canvas.data, i) => AtRow(canvas.points[i].y, BottomEdge)
        ELSE AtRow(canvas.points[i].y, BottomEdge)

(* a drawn series with two different values *)
C5_Witness ==
    /\ Len(canvas.points) = 2
    /\ canvas.data[1].value # canvas.data[2].value

Chronological(data) ==
    \A i \in 1..(Len(data) - 1) : data[i].timestamp <= data[i + 1].timestamp

(* C19: a redraw of a windowed series of n samples draws, for n = 0, the   *)
(* empty-state message and nothing else; for n >= 1, grid, axes and        *)
(* exactly n markers, the i-th on the i-th sample; and a line exactly when *)
(* n >= 2, with one vertex per sample in chronological order.              *)
C19_RedrawCounts ==
    LET data == canvas.data
        n == Len(data)
    IN  /\ Windowed(data, sensorData, selectedTimeRange, canvas.at)
        /\ n = 0 => /\ canvas.emptyState
                    /\ ~canvas.grid /\ ~canvas.axes
                    /\ canvas.line = <<>> /\ canvas.points = <<>>
        /\ n >= 1 => /\ ~canvas.emptyState
                     /\ canvas.grid /\ canvas.axes
                     /\ Len(canvas.points) = n
                     /\ \A i \in 1..n : canvas.points[i].sample = data[i]
        /\ (canvas.line # <<>>) <=> (n >= 2)
        /\ n >= 2 => /\ Len(canvas.line) = n
                     /\ \A i \in 1..n : canvas.line[i].sample = data[i]
                     /\ Chronological(data)

(* a single windowed sample: one marker and no line, out of two samples    *)
(* given newest first                                                      *)
C19_Witness ==
    /\ Len(sensorData) = 2
    /\ sensorData[1].timestamp > sensorData[2].timestamp
    /\ Len(canvas.data) = 1
    /\ Len(canvas.points) = 1
    /\ canvas.line = <<>>

(* the resize events form one burst: each comes less than 100 ms after    *)
(* the one before                                                          *)
OneBurst ==
    /\ resizeEvents # <<>>
    /\ \A i \in 1..(Len(resizeEvents) - 1) :
          resizeEvents[i + 1] - resizeEvents[i] < ResizeDelay

(* C15: once every timer of a burst of resize events has run, the burst    *)
(* has caused exactly one redraw, and that redraw came after the last      *)
(* event of the burst.                                                     *)
C15_OneRedrawPerBurst ==
    (OneBurst /\ timers = <<>>) =>
        /\ Len(redrawTimes) = 1
        /\ redrawTimes[1] >= resizeEvents[Len(resizeEvents)]

----------------------------------------------------------------------------
(* Properties of the server *)

Failed(q) == q.state = "error"

(* C1: getAllEnvironmentalData rejects if and only if one of its three     *)
(* field queries rejects, and resolves exactly when all three resolved,    *)
(* with every series as the store delivered it, an empty one included: no  *)
(* partial bundle.  GET /data then answers success:true with that bundle,  *)
(* and answers no data when the call rejected.                             *)
C1_AllOrNothing ==
    (req.route \in {"data", "export"} /\ issued > 0) =>
        /\ bundle.state = "rejected" <=> \E f \in FieldSet : Failed(queries[f])
        /\ bundle.state = "resolved" <=> \A f \in FieldSet : queries[f].state = "ok"
        /\ bundle.state = "resolved" => \A f \in FieldSet : bundle[f] = queries[f].result
        /\ bundle.state = "rejected" =>
              /\ resp # NoResp
              /\ ~resp.body.success
              /\ "data" \notin DOMAIN resp.body
        /\ (bundle.state = "resolved" /\ req.route = "data") =>
              /\ resp.status = 200
              /\ resp.body.success
              /\ resp.body.data = bundle

(* GET /data: one field query rejected after the two others had delivered  *)
(* rows, and the whole call rejected                                       *)
C1_Witness ==
    /\ req.route = "data"
    /\ bundle.state = "rejected"
    /\ Failed(queries["pressure"])
    /\ queries["temperature"].state = "ok" /\ queries["temperature"].result # <<>>
    /\ queries["humidity"].state = "ok" /\ queries["humidity"].result # <<>>

(* C6: when testConnection or getLatestData rejects, GET /status still     *)
(* answers a status object whose overall field is "warning", and the       *)
(* process keeps running.                                                  *)
C6_StatusWarnsWhenStoreDown ==
    (/\ req.route = "status"
     /\ resp # NoResp
     /\ Failed(queries.test) \/ Failed(queries.latest)) =>
        /\ running
        /\ "status" \in DOMAIN resp.body
        /\ resp.body.status.overall = "warning"

Malformed(timeStr) == timeStr # Absent /\ ~isValidTimeRange(timeStr)

(* C7: a request to /data or /export whose startTime or endTime is neither *)
(* -?<digits><unit> nor now() issues no store query and is answered 400.   *)
C7_BadTimeRangeIs400 ==
    (/\ req.route \in {"data", "export"}
     /\ Malformed(req.query.startTime) \/ Malformed(req.query.endTime)) =>
        /\ issued = 0
        /\ resp.status = 400

HasSampleAt(series, time) == \E i \in DOMAIN series : series[i].time = time

(* C8: the CSV of GET /export is the header line and one row per distinct  *)
(* timestamp of any series, ascending; a field's cell is its sample value  *)
(* at that timestamp, and empty when it has none.                          *)
C8_CsvExact ==
    (req.route = "export" /\ resp.status = 200) =>
        LET csv == resp.body.csv
            times == UNION {{bundle[f][i].time : i \in DOMAIN bundle[f]} : f \in FieldSet}
        IN  /\ csv.header = "timestamp,temperature,humidity,pressure"
            /\ {csv.rows[n].time : n \in DOMAIN csv.rows} = times
            /\ Len(csv.rows) = Cardinality(times)
            /\ \A m, n \in DOMAIN csv.rows : m < n => LexLess(csv.rows[m].time, csv.rows[n].time)
            /\ \A n \in DOMAIN csv.rows : \A f \in FieldSet :
                  IF HasSampleAt(bundle[f], csv.rows[n].time)
                  THEN \E i \in DOMAIN bundle[f] :
                          /\ bundle[f][i].time = csv.rows[n].time
                          /\ csv.rows[n][f] = ToString(bundle[f][i].value)
                  ELSE csv.rows[n][f] = ""

(* C9: a request whose store query failed because the store cannot be      *)
(* reached is answered with a service-unavailable status, and the process  *)
(* keeps running.                                                          *)
C9_StoreDownIsUnavailable ==
    (/\ resp # NoResp
     /\ \E q \in DOMAIN queries : Failed(queries[q]) /\ queries[q].code \in UnreachableCodes) =>
        /\ running
        /\ resp.status \in {503, 504}

(* C10: whatever the store and the broker do at boot, the server           *)
(* eventually reaches app.listen.                                          *)
C10_EventuallyListening == <>(boot = "listening")

(* C12: GET /data/:field with a valid or omitted time range: once it is   *)
(* answered and the store has not failed, a path field among the three     *)
(* gets success:true with the series of that field, and any other path     *)
(* field gets 400.                                                         *)
C12_FieldRoute ==
    (/\ req.route = "field"
     /\ resp # NoResp
     /\ ~validateTimeRange(req.query).error
     /\ \A q \in DOMAIN queries : ~Failed(queries[q])) =>
        IF req.path \in FieldSet
        THEN /\ resp.status = 200
             /\ resp.body.success
             /\ queries[req.path].state = "ok"
             /\ resp.body.data = queries[req.path].result
        ELSE resp.status = 400

NonDecreasing(series) ==
    \A i \in 1..(Len(series) - 1) : ~LexLess(series[i + 1].time, series[i].time)

(* C16: every series a store query resolved with, and so every series of   *)
(* an answered bundle, is in non-decreasing order of sample time,          *)
(* whatever order the store delivered the rows in.                         *)
C16_SeriesChronological ==
    /\ (req.route \in {"data", "export", "field"}) =>
          \A f \in DOMAIN queries : queries[f].state = "ok" => NonDecreasing(queries[f].result)
    /\ (req.route = "data" /\ resp.status = 200) =>
          \A f \in FieldSet : NonDecreasing(resp.body.data[f])

FailedWith(code) == \E q \in DOMAIN queries : Failed(queries[q]) /\ queries[q].code = code

(* C17, as claimed: a request whose store call timed out is answered as    *)
(* one whose store call was refused, with the same status and message.     *)
C17_TimeoutAnsweredAsRefusal ==
    (resp # NoResp /\ FailedWith("ETIMEDOUT")) =>
        /\ resp.status = errorHandler(StoreError("ECONNREFUSED"), nodeEnv).status
        /\ resp.body.error.message =
              errorHandler(StoreError("ECONNREFUSED"), nodeEnv).body.error.message

(* C17, amended: a timed-out store call is answered 504 Gateway Timeout    *)
(* and a refused one 503 Service Unavailable; both answers are error       *)
(* bodies with success false and the process keeps running.                *)
C17_TimeoutIs504RefusalIs503 ==
    /\ (resp # NoResp /\ FailedWith("ETIMEDOUT")) =>
          /\ resp.status = 504
          /\ resp.body.error.message = "Gateway Timeout"
          /\ ~resp.body.success
          /\ running
    /\ (resp # NoResp /\ FailedWith("ECONNREFUSED")) =>
          /\ resp.status = 503
          /\ resp.body.error.message = "Service Unavailable"
          /\ ~resp.body.success
          /\ running

C17_Witness ==
    /\ req.route = "data"
    /\ FailedWith("ETIMEDOUT")
    /\ resp.status = 504

LatestAnswered == req.route = "latest" /\ resp.status = 200

(* C18, as claimed: in the answer of GET /latest every field getLatestData *)
(* returned carries isRecent, true exactly when the sample is at most ten  *)
(* minutes old.                                                            *)
C18_RecentUpToTenMinutes ==
    LatestAnswered =>
        \A key \in DOMAIN queries.latest.result :
            resp.body.data[key].isRecent <=> (queries.latest.result[key] <= RecentAfter)

(* C18, amended: isRecent is true exactly when the sample is less than ten *)
(* minutes old; a sample exactly ten minutes old is not recent.            *)
C18_RecentUnderTenMinutes ==
    LatestAnswered =>
        /\ DOMAIN resp.body.data = DOMAIN queries.latest.result
        /\ \A key \in DOMAIN queries.latest.result :
              resp.body.data[key].isRecent <=> (queries.latest.result[key] < RecentAfter)

C18_Witness ==
    /\ LatestAnswered
    /\ \E key \in DOMAIN queries.latest.result :
          queries.latest.result[key] = RecentAfter /\ ~resp.body.data[key].isRecent
    /\ \E key \in DOMAIN queries.latest.result :
          queries.latest.result[key] = RecentAfter - 1 /\ resp.body.data[key].isRecent

----------------------------------------------------------------------------
(* Properties of the client *)

Succeeded == {i \in DOMAIN done : done[i].ok}

LastOf(indexes) == CHOOSE i \in indexes : \A j \in indexes : j <= i

(* C11: overlapping calls of fetchSensorData are never cancelled; the      *)
(* sensorData state of the hook is null until a call succeeds and is then  *)
(* what the successful call that completed last delivered, whatever the    *)
(* order the calls started in; a call that fails leaves it as it was.      *)
C11_LastCompletionWins ==
    hookData = IF Succeeded = {} THEN Null ELSE Held(done[LastOf(Succeeded)].data)

(* two overlapping calls succeeded in the reverse of their start order     *)
(* with different data, then a third failed                                *)
C11_Witness ==
    /\ Len(done) = 3
    /\ done[1].ok /\ done[2].ok /\ ~done[3].ok
    /\ done[1].call > done[2].call
    /\ done[1].data # done[2].data
    /\ hookData = Held(done[2].data)

FailureCompletes == Len(done') = Len(done) + 1 /\ ~done'[Len(done')].ok

DismissStep == done' = done /\ started' = started

(* C14: when a call fails the banner shows the text of that failure, and   *)
(* a banner that is shown keeps its text through every later step that is  *)
(* neither a failure nor the user's dismissal.                             *)
C14_BannerShowsLatestFailure ==
    [][ /\ FailureCompletes => error' = Held(done'[Len(done')].text)
        /\ (~FailureCompletes /\ ~DismissStep) => error' = error ]_vars

----------------------------------------------------------------------------
(* Properties of the helpers *)

Numeral(sign, pad, n, u) == sign \o pad \o Decimal(n) \o <<u>>

(* C20, as claimed: for a string made of an optional minus sign, the       *)
(* digits of N and a unit, timeRangeToMs returns N times the length of the *)
(* unit in milliseconds; "-2h" gives 7200000.                              *)
C20_SignedRangeToMs ==
    helperOut # NotCalled =>
        \A sign \in {<<>>, <<"-">>}, pad \in {<<>>, <<"0">>}, n \in 0..MaxN, u \in Units :
            helperArg = Numeral(sign, pad, n, u) => helperOut = n * units(u)

(* C20, amended: without a sign the result is N times the length of the    *)
(* unit ("2h" gives 7200000); with a leading minus sign the string does    *)
(* not match and the result is 0 ("-2h" gives 0).                          *)
C20_UnsignedRangeToMs ==
    helperOut # NotCalled =>
        /\ \A pad \in {<<>>, <<"0">>}, n \in 0..MaxN, u \in Units :
              /\ helperArg = Numeral(<<>>, pad, n, u) => helperOut = n * units(u)
              /\ helperArg = Numeral(<<"-">>, pad, n, u) => helperOut = 0
        /\ helperArg = <<"2", "h">> => helperOut = 7200000
        /\ helperArg = StrMinus2h => helperOut = 0

C20_Witness ==
    /\ helperArg = StrMinus2h
    /\ helperOut = 0

----------------------------------------------------------------------------
(* Properties of the device routes *)

(* a step in which a device request is received; Received is its entry *)
ReceiveStep == Len(devReqs') = Len(devReqs) + 1

Received == devReqs'[Len(devReqs')]

BrokerIsDown == mqttClient = Null \/ ~mqttClient.connected

(* C13, as claimed: a POST to /:id/commands or /:id/config received while  *)
(* the broker connection is down is answered 503, publishes nothing and    *)
(* leaves the registry as it was.                                          *)
C13_BrokerDownIs503 ==
    [][ (ReceiveStep /\ BrokerIsDown /\ Received.route \in {"commands", "config"}) =>
            /\ Received.status = 503
            /\ published' = published
            /\ deviceRegistry' = deviceRegistry ]_vars

(* C13, amended: such a request is answered 503 when its body passes       *)
(* validation and 400 when it does not; in both cases nothing is published *)
(* and the registry stays as it was.                                       *)
C13_BrokerDownIs503IfBodyValid ==
    [][ (ReceiveStep /\ BrokerIsDown /\ Received.route \in {"commands", "config"}) =>
            /\ Received.status \in {400, 503}
            /\ (Received.status = 400) <=>
                  \/ Received.route = "commands" /\ Received.value.command = "undefined"
                  \/ Received.route = "config" /\ Received.value.configType = "undefined"
            /\ ~Received.sent
            /\ published' = published
            /\ deviceRegistry' = deviceRegistry ]_vars

(* a command for a registered device was refused with 503 while the broker *)
(* was down                                                                *)
C13_Witness ==
    /\ mqttClient # Null
    /\ ~mqttClient.connected
    /\ Len(devReqs) = 2
    /\ devReqs[1].route = "settings" /\ devReqs[1].status = 200
    /\ devReqs[2].route = "commands" /\ devReqs[2].status = 503
    /\ devReqs[2].deviceId \in DOMAIN deviceRegistry
    /\ Len(published) = 1

----------------------------------------------------------------------------
(* Properties of the error handler *)

KnownNames == ErrorNames \ {"Error", "TypeError"}

(* C21: errorHandler answers a ValidationError with 400 and its field      *)
(* details, a NotFoundError with 404, an error of no known name and no     *)
(* connection code with 500, and puts a stack in the body only when the    *)
(* environment is not production.                                          *)
C21_ErrorClasses ==
    handled # NoResp =>
        /\ handled.status = handled.body.error.status
        /\ ~handled.body.success
        /\ thrown.name = "ValidationError" =>
              /\ handled.status = 400
              /\ thrown.details # {} => handled.body.error.details = thrown.details
        /\ thrown.name = "NotFoundError" => handled.status = 404
        /\ (thrown.name \notin KnownNames /\ thrown.code \notin {"ECONNREFUSED", "ETIMEDOUT"}) =>
              handled.status = 500
        /\ handled.body.error.stack => thrownEnv # "production"

(* a validation error handled in production: 400 with details, no stack *)
C21_Witness ==
    /\ thrown.name = "ValidationError"
    /\ thrown.details = {"startTime"}
    /\ thrownEnv = "production"
    /\ handled.status = 400
    /\ handled.body.error.details = {"startTime"}
    /\ ~handled.body.error.stack

----------------------------------------------------------------------------
(* Properties of the server when the store is down *)

(* C22: a sensor data request answered after one of its store queries     *)
(* failed because the store cannot be reached still receives readings: a  *)
(* success body with data, not an error response.                         *)
C22_MockFallback ==
    (/\ req.route = "data"
     /\ resp # NoResp
     /\ \E f \in FieldSet : Failed(queries[f]) /\ queries[f].code \in UnreachableCodes) =>
        /\ resp.status = 200
        /\ resp.body.success
        /\ "data" \in DOMAIN resp.body

----------------------------------------------------------------------------
(* Properties of the chart between redraws *)

(* two pixel coordinates, each a pair <<numerator, divisor>>, are equal *)
SamePixel(p, q) == p[1] * q[2] = q[1] * p[2]

(* C23: at every pointer move, every sample drawn on the canvas that the   *)
(* hit test also visits is given by the hit test the pixel position at    *)
(* which it was last drawn, also when the clock has advanced since the    *)
(* last redraw.                                                           *)
C23_HitTestWhereDrawn ==
    hit # NoHit =>
        \A k \in DOMAIN canvas.points : \A i \in DOMAIN hit.data :
            hit.data[i] = canvas.points[k].sample =>
                /\ SamePixel(PixelX(hit.data[i], hit.scale), canvas.points[k].x)
                /\ SamePixel(PixelY(hit.data[i], hit.scale), canvas.points[k].y)

----------------------------------------------------------------------------
(* Properties of GET /status *)

(* GET /status answered after testConnection and getLatestData resolved *)
StatusAnswered ==
    /\ req.route = "status"
    /\ queries.test.state = "ok"
    /\ queries.latest.state = "ok"

(* C24: when both store calls of GET /status resolved, the answer reports  *)
(* overall "healthy" iff some field of the latest-data result is less     *)
(* than 15 minutes old and "warning" otherwise, and reports each field of *)
(* that result with isHealthy true iff its own sample is less than 15     *)
(* minutes old.                                                           *)
C24_HealthyIffFresh ==
    StatusAnswered =>
        LET latest == queries.latest.result
            status == resp.body.status
        IN  /\ resp.status = 200
            /\ status.overall = IF \E key \in DOMAIN latest : latest[key] < 15
                                THEN "healthy" ELSE "warning"
            /\ DOMAIN status.sensors = DOMAIN latest
            /\ \A key \in DOMAIN latest : status.sensors[key].isHealthy <=> latest[key] < 15

(* one field exactly 15 minutes old, one younger: healthy overall, the    *)
(* older field not                                                        *)
C24_Witness ==
    /\ StatusAnswered
    /\ resp.body.status.overall = "healthy"
    /\ \E key \in DOMAIN queries.latest.result :
          /\ queries.latest.result[key] = 15
          /\ ~resp.body.status.sensors[key].isHealthy

(* every field at least 15 minutes old: warning *)
C24_WitnessWarning ==
    /\ StatusAnswered
    /\ DOMAIN queries.latest.result # {}
    /\ resp.body.status.overall = "warning"

----------------------------------------------------------------------------
(* Properties of the device registry *)

(* request n resumes in this step: its publish callback ran *)
Resumes(n) == devReqs[n].status = 0 /\ devReqs'[n].status # 0

(* DELETE of the device of request n answered success after n was accepted *)
DeletedSince(n) ==
    \E m \in DOMAIN devReqs :
        /\ m > n
        /\ devReqs[m].route = "delete"
        /\ devReqs[m].status = 200
        /\ devReqs[m].deviceId = devReqs[n].deviceId

(* C25: a request accepted before a DELETE of its device answered success  *)
(* does not put the device back into the registry when it resumes.         *)
C25_DeletedStaysDeleted ==
    [][ \A n \in DOMAIN devReqs :
            (/\ Resumes(n)
             /\ DeletedSince(n)
             /\ ~has(deviceRegistry, devReqs[n].deviceId)) =>
                ~has(deviceRegistry', devReqs[n].deviceId) ]_vars

(* the keys a settings body carries *)
KeysPresent(body) ==
    (DOMAIN body \ {"deviceName"})
    \cup (IF body.deviceName # "undefined" THEN {"deviceName"} ELSE {})

(* C26: a POST /:id/settings answered 200 for a registered device leaves   *)
(* every stored configuration key that its body does not carry at its      *)
(* previous value.                                                         *)
C26_OnlyKeysOfBody ==
    [][ \A n \in DOMAIN devReqs :
            (/\ devReqs[n].route = "settings"
             /\ Resumes(n)
             /\ devReqs'[n].status = 200
             /\ has(deviceRegistry, devReqs[n].deviceId)) =>
                LET before == deviceRegistry[devReqs[n].deviceId].configuration
                    after == deviceRegistry'[devReqs[n].deviceId].configuration
                IN  \A k \in DOMAIN before \ KeysPresent(devReqs[n].body) :
                        k \in DOMAIN after /\ after[k] = before[k] ]_vars

CommandRoutes == {"commands", "config", "restart"}

(* C30: a command, config or restart request changes the registry in no    *)
(* step but the one in which it resumes after its publish; there it never  *)
(* adds or removes an entry, and it leaves the registry as it was when the *)
(* device is not registered or when the publish failed, which is answered  *)
(* 500.                                                                    *)
C30_UpdateOnlyAfterPublish ==
    [][ /\ (ReceiveStep /\ Received.route \in CommandRoutes) =>
                deviceRegistry' = deviceRegistry
        /\ \A n \in DOMAIN devReqs :
              (devReqs[n].route \in CommandRoutes /\ Resumes(n)) =>
                 /\ devReqs'[n].status \in {200, 500}
                 /\ DOMAIN deviceRegistry' = DOMAIN deviceRegistry
                 /\ ~has(deviceRegistry, devReqs[n].deviceId) =>
                        deviceRegistry' = deviceRegistry
                 /\ devReqs'[n].status = 500 => deviceRegistry' = deviceRegistry
                 /\ deviceRegistry' # deviceRegistry => devReqs'[n].status = 200 ]_vars

(* a command or restart for a registered device whose publish failed:     *)
(* answered 500, no lastCommand recorded                                   *)
C30_Witness ==
    \E n \in DOMAIN devReqs :
        /\ devReqs[n].route \in {"commands", "restart"}
        /\ devReqs[n].sent
        /\ devReqs[n].status = 500
        /\ has(deviceRegistry, devReqs[n].deviceId)
        /\ deviceRegistry[devReqs[n].deviceId].lastCommand = Null

----------------------------------------------------------------------------
(* Properties of the loading flag of useSensorData *)

(* C27: loading is true exactly while at least one call of fetchSensorData *)
(* is awaiting its answer, whatever the interleaving of the calls.         *)
C27_LoadingIffInFlight == loading <=> inflight # {}

----------------------------------------------------------------------------
(* Properties of GET /export *)

(* C28: GET /export with format=json is never answered with a CSV body:   *)
(* an answer that is not an error of the store is the 400 "Only CSV       *)
(* format is currently supported".                                        *)
C28_OtherFormatIs400 ==
    (req.route = "export" /\ req.query.format = "json" /\ resp # NoResp) =>
        /\ "csv" \notin DOMAIN resp.body
        /\ resp.status < 500 => resp = FormatResponse

----------------------------------------------------------------------------
(* Properties of the handler registry *)

SubscribeFailed(call) == call.status \in {"not initialized", "rejected"}

(* the registry holding the handlers of the calls of a list that have not  *)
(* failed, in call order                                                   *)
RECURSIVE RegistryOf(_)
RegistryOf(calls) ==
    IF calls = <<>> THEN NoHandlers
    ELSE LET last == calls[Len(calls)]
             rest == RegistryOf(SubSeq(calls, 1, Len(calls) - 1))
         IN  IF SubscribeFailed(last) THEN rest ELSE Push(rest, last.topic, last.handler)

(* C29: a subscribeToTopic call that failed, for want of a client or by    *)
(* the broker's refusal, leaves the registry without its handler: the      *)
(* registry holds exactly the handlers of the calls that have not failed,  *)
(* and a message is handed to no handler of a failed call.                 *)
C29_FailedSubscribeLeavesNoHandler ==
    /\ messageHandlers = RegistryOf(subCalls)
    /\ \A m \in DOMAIN invoked :
          invoked[m].handlers = HandlersFor(RegistryOf(invoked[m].calls), invoked[m].topic)

(* the same for a call rejected for want of a client only *)
C29_NoClientLeavesNoHandler ==
    \A n \in DOMAIN subCalls :
        (subCalls[n].status = "not initialized"
            /\ \A k \in DOMAIN subCalls : k # n => subCalls[k].topic # subCalls[n].topic) =>
                subCalls[n].topic \notin DOMAIN messageHandlers

====
